---- MODULE Spec2Model ----
(***************************************************************************)
(* Lifecycle of the HTCondor glidein controller (glidein2.py, class        *)
(* CondorGlidein).  The constructor runs the provisioning steps in order;  *)
(* cleanup() is the teardown routine, reached from step failures, from the *)
(* SIGINT handler and after the daemon returned.                           *)
(*                                                                         *)
(* Python strings that the code searches or concatenates are sequences of  *)
(* one-character strings; strings that are only compared are TLA+ strings. *)
(***************************************************************************)
EXTENDS Integers, Sequences, FiniteSets, TLC

\* ------------------------------------------------------------------ bounds

\* SIGINT deliveries considered in one run.
MaxSignals == 2

\* ------------------------------------------------------- program constants

\* sys.exit(1) in cleanup(); also the status of an uncaught exception.
FixedExitStatus == 1

\* ----------------------------------------------------------------- strings

Str_Scientific == <<"S","c","i","e","n","t","i","f","i","c">>
Str_CentOS     == <<"C","e","n","t","O","S">>
Str_Red_Hat    == <<"R","e","d"," ","H","a","t">>
Str_Debian     == <<"D","e","b","i","a","n">>
Str_Ubuntu     == <<"U","b","u","n","t","u">>
Str_RedHat     == <<"R","e","d","H","a","t">>
Str_MacOSX     == <<"M","a","c","O","S","X">>
Str_password   == <<"p","a","s","s","w","o","r","d">>
Str_GSI        == <<"G","S","I">>
Str_Linux      == <<" ","L","i","n","u","x">>
Str_Fedora     == <<"F","e","d","o","r","a">>

\* Python `needle in hay` for str.
Contains(needle, hay) ==
    \E i \in 0..(Len(hay) - Len(needle)) :
        SubSeq(hay, i + 1, i + Len(needle)) = needle

\* Python truth value of a str.
Truthy(s) == Len(s) > 0

\* Python s.split(".", 1)[0].
SplitMajor(s) ==
    IF \E i \in 1..Len(s) : s[i] = "."
    THEN LET k == CHOOSE i \in 1..Len(s) :
                      s[i] = "." /\ \A j \in 1..(i - 1) : s[j] # "."
         IN  SubSeq(s, 1, k - 1)
    ELSE s

\* -------------------------------------------------------------- the host

\* platform.machine()
Machines == {"x86_64", "i686"}

\* platform.system()
Systems == {"Linux", "Darwin", "CYGWIN_NT-10.0"}

\* platform.linux_distribution()[0] on Linux hosts
DistroNames ==
    { Str_Ubuntu,
      Str_Debian,
      Str_CentOS \o Str_Linux,
      Str_Red_Hat \o Str_Linux,
      Str_Fedora }

\* platform.linux_distribution()[1] on Linux hosts
DistroVersions == { <<"2","0",".","0","4">>, <<"7">> }

\* What the platform module reports on one host.
Hosts ==
    { [machine |-> m, system |-> "Linux", distro_name |-> n, distro_version |-> v] :
        m \in Machines, n \in DistroNames, v \in DistroVersions }
    \cup
    { [machine |-> m, system |-> s, distro_name |-> <<>>, distro_version |-> <<>>] :
        m \in Machines, s \in Systems \ {"Linux"} }

NoHost == [machine |-> "", system |-> "", distro_name |-> <<>>, distro_version |-> <<>>]

\* Outcome of the distribution lookup of download_tarball: the label, or the
\* exception that leaves the method.  `"Scientific" or "CentOS" or "Red Hat"
\* in distro_name` is the disjunction of the truth values of two string
\* literals and one containment test.
ResolveDistro(h) ==
    LET distro_major == SplitMajor(h.distro_version) IN
    IF h.system = "Linux"
    THEN IF Truthy(Str_Scientific) \/ Truthy(Str_CentOS)
               \/ Contains(Str_Red_Hat, h.distro_name)
         THEN [ok |-> TRUE, distro |-> Str_RedHat \o distro_major]
         ELSE IF Contains(Str_Debian, h.distro_name)
         THEN [ok |-> TRUE, distro |-> Str_Debian \o distro_major]
         ELSE IF Contains(Str_Ubuntu, h.distro_name)
         THEN [ok |-> TRUE, distro |-> Str_Ubuntu \o distro_major]
         ELSE [ok |-> FALSE, distro |-> <<>>]
    ELSE IF h.system = "Darwin"
    THEN [ok |-> TRUE, distro |-> Str_MacOSX]
    ELSE [ok |-> FALSE, distro |-> <<>>]

\* ------------------------------------------------------ constructor inputs

\* -W / -P: absent, an http URL, or a local path.
ArtifactSources == {"none", "url", "path"}

\* p.pid of the Popen in start_condor
Pids == {4242, 4243}

\* -a
AuthValues == { Str_password, Str_GSI, Str_GSI \o <<",">> \o Str_password }

\* -p: absent or a secret.
PasswordValues == {"None", "secret"}

\* ------------------------------------------------------------------- state

VARIABLES
    pc,               \* the statement the controller is at
    noclean,          \* self.noclean
    exec_wrapper,     \* constructor argument exec_wrapper (its source kind)
    startd_cron,      \* constructor argument startd_cron (its source kind)
    auth,             \* self.auth
    password,         \* self.password
    host,             \* what platform.* reported, once read
    attrs,            \* the instance attributes that exist (hasattr)
    distro,           \* the family label inside self.condor_platform
    staged,           \* values of self.exec_wrapper / self.startd_cron
    chmod,            \* outcome of os.chmod per artifact
    which,            \* the artifact copy_to_exec is staging
    f,                \* local f of copy_to_exec
    disk,             \* files and directories the controller created
    config_bits,      \* local config_bits of initial_config
    config,           \* "".join(config_bits), once computed
    published,        \* number of assignments to os.environ["CONDOR_CONFIG"]
    daemon,           \* condor_master: not_started, running, exited
    reaped,           \* p.communicate() returned
    handlerInstalled, \* signal.signal(SIGINT, ...) done
    sigCount,         \* SIGINT deliveries so far
    ctx,              \* where an exception leaving cleanup() lands
    cleanupEntries,   \* number of calls of cleanup()
    clKill,           \* outcome of os.kill in the running cleanup()
    clSlept,          \* the running cleanup() finished time.sleep(10)
    clRaised,         \* an exception other than SystemExit left cleanup()
    fatal,            \* the fatal conditions met so far
    rmFailed,         \* cleanup() swallowed a removal error other than ENOENT
    exitStatus,       \* the process's exit status, -1 while it runs
    exitVia,          \* how the process ended
    masterpid,        \* self.masterpid, 0 while unassigned
    launches,         \* number of Popen calls that started condor_master
    killTargets,      \* the pids cleanup() passed to os.kill
    netCalls,         \* number of urllib.urlretrieve calls
    steps             \* the provisioning steps completed, in order

vars == << pc, noclean, exec_wrapper, startd_cron, auth, password, host, attrs,
           distro, staged, chmod, which, f, disk, config_bits, config, published, daemon,
           reaped, handlerInstalled, sigCount, ctx, cleanupEntries, clKill,
           clSlept, clRaised, fatal, rmFailed, exitStatus, exitVia, masterpid,
           launches, killTargets, netCalls, steps >>

inputs == << noclean, exec_wrapper, startd_cron, auth, password >>
clv    == << ctx, cleanupEntries, clKill, clSlept, clRaised >>
exitv  == << exitStatus, exitVia >>
stagev == << staged, chmod, which, f >>
sigv   == << handlerInstalled, sigCount >>

EmptyDisk ==
    [ tarball |-> FALSE, workdir |-> FALSE, extracted |-> FALSE,
      libexec |-> FALSE, wrapper |-> FALSE, cron |-> FALSE,
      cred |-> FALSE, config |-> "absent" ]

\* shutil.rmtree(self.glidein_dir): everything but the archive in the cwd.
RmTree(d) == [EmptyDisk EXCEPT !.tarball = d.tarball]

Init ==
    /\ pc = "setup_signaling"
    /\ noclean \in BOOLEAN
    /\ exec_wrapper \in ArtifactSources
    /\ startd_cron \in ArtifactSources
    /\ auth \in AuthValues
    /\ password \in PasswordValues
    /\ host = NoHost
    /\ attrs = {}
    /\ distro = <<>>
    /\ staged = [wrapper |-> "unset", cron |-> "unset"]
    /\ chmod = [wrapper |-> "none", cron |-> "none"]
    /\ which = "none"
    /\ f = "unset"
    /\ disk = EmptyDisk
    /\ config_bits = <<>>
    /\ config = <<>>
    /\ published = 0
    /\ daemon = "not_started"
    /\ reaped = FALSE
    /\ handlerInstalled = FALSE
    /\ sigCount = 0
    /\ ctx = "top"
    /\ cleanupEntries = 0
    /\ clKill = "none"
    /\ clSlept = FALSE
    /\ clRaised = FALSE
    /\ fatal = {}
    /\ rmFailed = FALSE
    /\ exitStatus = -1
    /\ exitVia = "none"
    /\ masterpid = 0
    /\ launches = 0
    /\ killTargets = {}
    /\ netCalls = 0
    /\ steps = <<>>

\* ---------------------------------------------------------- control helpers

\* The next statement of the same method; no teardown, no exit.
Goto(p) ==
    /\ pc' = p
    /\ UNCHANGED << clv, exitv, steps >>

\* Goto(p) after the provisioning step s completed.
Advance(p, s) ==
    /\ pc' = p
    /\ steps' = Append(steps, s)
    /\ UNCHANGED << clv, exitv >>

\* self.cleanup() called from a statement whose exceptions land in c.
EnterCleanup(c) ==
    /\ pc' = "cl_kill"
    /\ ctx' = c
    /\ cleanupEntries' = cleanupEntries + 1
    /\ clKill' = "none"
    /\ clSlept' = FALSE
    /\ UNCHANGED << clRaised, exitv, steps >>

\* An exception no handler catches: traceback, exit status 1.
Crash ==
    /\ pc' = "done"
    /\ exitStatus' = FixedExitStatus
    /\ exitVia' = "uncaught"
    /\ UNCHANGED << clv, steps >>

\* __init__ returns and the script ends.
Return ==
    /\ pc' = "done"
    /\ exitStatus' = 0
    /\ exitVia' = "return"
    /\ UNCHANGED << clv, steps >>

\* ------------------------------------------------------ provisioning steps

SetupSignaling ==
    /\ pc = "setup_signaling"
    /\ handlerInstalled' = TRUE
    /\ Goto("setup_logging")
    /\ UNCHANGED << inputs, masterpid, launches, killTargets, netCalls, config,
                    rmFailed, host, attrs, distro, stagev, disk, config_bits,
                    published, daemon, reaped, sigCount, fatal >>

SetupLogging ==
    /\ pc = "setup_logging"
    /\ attrs' = attrs \cup {"log"}
    /\ Goto("resolve_platform")
    /\ UNCHANGED << inputs, masterpid, launches, killTargets, netCalls, config,
                    rmFailed, host, distro, stagev, disk, config_bits,
                    published, daemon, reaped, sigv, fatal >>

\* ResolvePlatform with the unsupported architecture logged but not raised.
ResolvePlatform_ArchLogged ==
    /\ pc = "resolve_platform"
    /\ \E h \in Hosts :
         /\ host' = h
         /\ IF h.machine # "x86_64"
            THEN /\ fatal' = fatal \cup {"arch"}
                 /\ distro' = ResolveDistro(h).distro
                 /\ attrs' = attrs \cup {"condor_platform", "condor_tarball"}
                 /\ Goto("urlretrieve")
            ELSE IF ~ResolveDistro(h).ok
            THEN /\ fatal' = fatal \cup {"os"}
                 /\ Crash
                 /\ UNCHANGED << attrs, distro >>
            ELSE /\ distro' = ResolveDistro(h).distro
                 /\ attrs' = attrs \cup {"condor_platform", "condor_tarball"}
                 /\ Goto("urlretrieve")
                 /\ UNCHANGED fatal
    /\ UNCHANGED << inputs, masterpid, launches, killTargets, netCalls, config,
                    rmFailed, stagev, disk, config_bits, published, daemon,
                    reaped, sigv >>

\* download_tarball up to the assignment of self.condor_tarball.
ResolvePlatform ==
    /\ pc = "resolve_platform"
    /\ \E h \in Hosts :
         /\ host' = h
         /\ IF h.machine # "x86_64"
            THEN /\ fatal' = fatal \cup {"arch"}
                 /\ Crash
                 /\ UNCHANGED << attrs, distro >>
            ELSE IF ~ResolveDistro(h).ok
            THEN /\ fatal' = fatal \cup {"os"}
                 /\ Crash
                 /\ UNCHANGED << attrs, distro >>
            ELSE /\ distro' = ResolveDistro(h).distro
                 /\ attrs' = attrs \cup {"condor_platform", "condor_tarball"}
                 /\ Goto("urlretrieve")
                 /\ UNCHANGED fatal
    /\ UNCHANGED << inputs, masterpid, launches, killTargets, netCalls, config,
                    rmFailed, stagev, disk, config_bits, published, daemon,
                    reaped, sigv >>

\* urllib.urlretrieve(src, self.condor_tarball)
DownloadTarball ==
    /\ pc = "urlretrieve"
    /\ netCalls' = netCalls + 1
    /\ \/ /\ disk' = [disk EXCEPT !.tarball = TRUE]
          /\ Advance("file_probe", "download")
          /\ UNCHANGED fatal
       \/ /\ \E partial \in BOOLEAN : disk' = [disk EXCEPT !.tarball = partial]
          /\ fatal' = fatal \cup {"download"}
          /\ EnterCleanup("top")
    /\ UNCHANGED << inputs, masterpid, launches, killTargets, config, rmFailed,
                    host, attrs, distro, stagev, config_bits, published,
                    daemon, reaped, sigv >>

\* FileProbe without the cleanup call for a wrong file type.
FileProbe_NoAbort ==
    /\ pc = "file_probe"
    /\ \E out \in {"gzip", "other", "nonzero"} :
         IF out = "gzip"
         THEN Advance("setup_workdir", "typecheck") /\ UNCHANGED fatal
         ELSE /\ fatal' = fatal \cup {IF out = "other" THEN "filetype" ELSE "probe"}
              /\ IF out = "other"
                 THEN Goto("setup_workdir")
                 ELSE EnterCleanup("top")
    /\ UNCHANGED << inputs, masterpid, launches, killTargets, netCalls, config,
                    rmFailed, host, attrs, distro, stagev, disk, config_bits,
                    published, daemon, reaped, sigv >>

\* runcommand("file ...") and the test of its output.
FileProbe ==
    /\ pc = "file_probe"
    /\ \E out \in {"gzip", "other", "nonzero"} :
         IF out = "gzip"
         THEN Advance("setup_workdir", "typecheck") /\ UNCHANGED fatal
         ELSE /\ fatal' = fatal \cup {IF out = "other" THEN "filetype" ELSE "probe"}
              /\ EnterCleanup("top")
    /\ UNCHANGED << inputs, masterpid, launches, killTargets, netCalls, config,
                    rmFailed, host, attrs, distro, stagev, disk, config_bits,
                    published, daemon, reaped, sigv >>

SetupWorkdir ==
    /\ pc = "setup_workdir"
    /\ \E outcome \in {"ok", "mkdtemp_failed", "mkdir_failed"} :
         IF outcome = "mkdtemp_failed"
         THEN /\ fatal' = fatal \cup {"workdir"}
              /\ EnterCleanup("top")
              /\ UNCHANGED << attrs, disk >>
         ELSE /\ attrs' = attrs \cup {"glidein_dir", "glidein_local_dir"}
              /\ disk' = [disk EXCEPT !.workdir = TRUE]
              /\ IF outcome = "ok"
                 THEN Advance("unpack_extract", "workdir") /\ UNCHANGED fatal
                 ELSE /\ fatal' = fatal \cup {"workdir"}
                      /\ EnterCleanup("top")
    /\ UNCHANGED << inputs, masterpid, launches, killTargets, netCalls, config,
                    rmFailed, host, distro, stagev, config_bits, published,
                    daemon, reaped, sigv >>

\* UnpackExtract with a failed extraction logged and the constructor going on.
UnpackExtract_NoAbort ==
    /\ pc = "unpack_extract"
    /\ \/ /\ disk' = [disk EXCEPT !.extracted = TRUE]
          /\ attrs' = attrs \cup {"condor_dir"}
          /\ Advance("unpack_remove", "extract")
          /\ UNCHANGED fatal
       \/ /\ \E some \in BOOLEAN : disk' = [disk EXCEPT !.extracted = some]
          /\ fatal' = fatal \cup {"extract"}
          /\ Goto("unpack_remove")
          /\ UNCHANGED attrs
    /\ UNCHANGED << inputs, masterpid, launches, killTargets, netCalls, config,
                    rmFailed, host, distro, stagev, config_bits, published,
                    daemon, reaped, sigv >>

\* unpack_tarball: tarfile.open .. tar.close()
UnpackExtract ==
    /\ pc = "unpack_extract"
    /\ \/ /\ disk' = [disk EXCEPT !.extracted = TRUE]
          /\ attrs' = attrs \cup {"condor_dir"}
          /\ Advance("unpack_remove", "extract")
          /\ UNCHANGED fatal
       \/ /\ \E some \in BOOLEAN : disk' = [disk EXCEPT !.extracted = some]
          /\ fatal' = fatal \cup {"extract"}
          /\ EnterCleanup("top")
          /\ UNCHANGED attrs
    /\ UNCHANGED << inputs, masterpid, launches, killTargets, netCalls, config,
                    rmFailed, host, distro, stagev, config_bits, published,
                    daemon, reaped, sigv >>

\* unpack_tarball: os.remove(self.condor_tarball)
UnpackRemove ==
    /\ pc = "unpack_remove"
    /\ \/ /\ disk' = [disk EXCEPT !.tarball = FALSE]
          /\ Advance("report_info", "rm_archive")
          /\ UNCHANGED fatal
       \/ /\ fatal' = fatal \cup {"extract"}
          /\ EnterCleanup("top")
          /\ UNCHANGED disk
    /\ UNCHANGED << inputs, masterpid, launches, killTargets, netCalls, config,
                    rmFailed, host, attrs, distro, stagev, config_bits,
                    published, daemon, reaped, sigv >>

ReportInfo ==
    /\ pc = "report_info"
    /\ Goto("stage_wrapper")
    /\ UNCHANGED << inputs, masterpid, launches, killTargets, netCalls, config,
                    rmFailed, host, attrs, distro, stagev, disk, config_bits,
                    published, daemon, reaped, sigv, fatal >>

\* if exec_wrapper is not None: self.exec_wrapper = self.copy_to_exec(..)
StageWrapper ==
    /\ pc = "stage_wrapper"
    /\ IF exec_wrapper = "none"
       THEN Goto("stage_cron") /\ UNCHANGED which
       ELSE Goto("cte_mkdir") /\ which' = "wrapper"
    /\ UNCHANGED << inputs, masterpid, launches, killTargets, netCalls, config,
                    rmFailed, host, attrs, distro, staged, chmod, f, disk,
                    config_bits, published, daemon, reaped, sigv, fatal >>

\* if startd_cron is not None: self.startd_cron = self.copy_to_exec(..)
StageCron ==
    /\ pc = "stage_cron"
    /\ IF startd_cron = "none"
       THEN Goto("initial_config") /\ UNCHANGED which
       ELSE Goto("cte_mkdir") /\ which' = "cron"
    /\ UNCHANGED << inputs, masterpid, launches, killTargets, netCalls, config,
                    rmFailed, host, attrs, distro, staged, chmod, f, disk,
                    config_bits, published, daemon, reaped, sigv, fatal >>

\* The source kind of the artifact being staged.
Source == IF which = "wrapper" THEN exec_wrapper ELSE startd_cron

\* copy_to_exec: os.mkdir(local_libexec), EEXIST tolerated.
CopyMkdir ==
    /\ pc = "cte_mkdir"
    /\ IF disk.libexec
       THEN Goto("cte_realize") /\ UNCHANGED << disk, fatal >>
       ELSE \/ /\ disk.workdir
               /\ disk' = [disk EXCEPT !.libexec = TRUE]
               /\ Goto("cte_realize")
               /\ UNCHANGED fatal
            \/ /\ fatal' = fatal \cup {"staging"}
               /\ EnterCleanup("top")
               /\ UNCHANGED disk
    /\ UNCHANGED << inputs, masterpid, launches, killTargets, netCalls, config,
                    rmFailed, host, attrs, distro, stagev, config_bits,
                    published, daemon, reaped, sigv >>

\* copy_to_exec: f = self.realize_file(path, local_libexec).  A URL that
\* cannot be retrieved is logged inside realize_file, which then returns None;
\* a local copy that fails raises into copy_to_exec's handler.
CopyRealize ==
    /\ pc = "cte_realize"
    /\ netCalls' = netCalls + (IF Source = "url" THEN 1 ELSE 0)
    /\ \/ /\ disk.libexec
          /\ disk' = [disk EXCEPT ![which] = TRUE]
          /\ f' = "file"
          /\ Goto("cte_chmod")
          /\ UNCHANGED fatal
       \/ /\ Source = "url"
          /\ f' = "None"
          /\ fatal' = fatal \cup {"staging"}
          /\ Goto("cte_chmod")
          /\ UNCHANGED disk
       \/ /\ Source = "path"
          /\ fatal' = fatal \cup {"staging"}
          /\ EnterCleanup("top")
          /\ UNCHANGED << disk, f >>
    /\ UNCHANGED << inputs, masterpid, launches, killTargets, config, rmFailed,
                    host, attrs, distro, staged, chmod, which, config_bits,
                    published, daemon, reaped, sigv >>

\* CopyChmod without the os.chmod call.
CopyChmod_Skipped ==
    /\ pc = "cte_chmod"
    /\ staged' = [staged EXCEPT ![which] = f]
    /\ attrs' = attrs \cup {IF which = "wrapper" THEN "exec_wrapper" ELSE "startd_cron"}
    /\ IF f = "file"
       THEN Advance(IF which = "wrapper" THEN "stage_cron" ELSE "initial_config",
                    IF which = "wrapper" THEN "stage_wrapper" ELSE "stage_cron")
       ELSE Goto(IF which = "wrapper" THEN "stage_cron" ELSE "initial_config")
    /\ UNCHANGED << inputs, masterpid, launches, killTargets, netCalls, config,
                    rmFailed, host, distro, chmod, which, f, disk, config_bits,
                    published, daemon, reaped, sigv, fatal >>

\* copy_to_exec: os.chmod(f, 0755), failure logged only; return f, which
\* __init__ stores in self.exec_wrapper or self.startd_cron.
CopyChmod ==
    /\ pc = "cte_chmod"
    /\ \E result \in {"ok", "failed"} :
         /\ result = "ok" => f = "file" /\ disk[which]
         /\ chmod' = [chmod EXCEPT ![which] = result]
    /\ staged' = [staged EXCEPT ![which] = f]
    /\ attrs' = attrs \cup {IF which = "wrapper" THEN "exec_wrapper" ELSE "startd_cron"}
    /\ IF f = "file"
       THEN Advance(IF which = "wrapper" THEN "stage_cron" ELSE "initial_config",
                    IF which = "wrapper" THEN "stage_wrapper" ELSE "stage_cron")
       ELSE Goto(IF which = "wrapper" THEN "stage_cron" ELSE "initial_config")
    /\ UNCHANGED << inputs, masterpid, launches, killTargets, netCalls, config,
                    rmFailed, host, distro, which, f, disk, config_bits,
                    published, daemon, reaped, sigv, fatal >>

\* ----------------------------------------------------------- configuration

\* initial_config: the optional blocks appended after the dynamic and the
\* static block, by hasattr(self, 'exec_wrapper') and hasattr(self, 'startd_cron').
OptionalBits(a) ==
    (IF "exec_wrapper" \in a THEN <<"wrapper">> ELSE <<>>)
    \o (IF "startd_cron" \in a THEN <<"cron">> ELSE <<>>)

\* NeedsPassword without the test of the secret.
NeedsPassword_SecretIgnored(a, p) == Contains(Str_password, a)

\* initial_config: "password" in self.auth and self.password is not None
NeedsPassword(a, p) == Contains(Str_password, a) /\ p # "None"

\* initial_config up to the password test.  os.path.basename(None) raises
\* AttributeError, which nothing catches.
InitialConfig ==
    /\ pc = "initial_config"
    /\ IF \/ "exec_wrapper" \in attrs /\ staged.wrapper = "None"
          \/ "startd_cron" \in attrs /\ staged.cron = "None"
       THEN Crash /\ UNCHANGED config_bits
       ELSE /\ config_bits' = <<"dynamic", "static">> \o OptionalBits(attrs)
            /\ Goto(IF NeedsPassword(auth, password) THEN "store_cred" ELSE "config_write")
    /\ UNCHANGED << inputs, masterpid, launches, killTargets, netCalls, config,
                    rmFailed, host, attrs, distro, stagev, disk, published,
                    daemon, reaped, sigv, fatal >>

\* initial_config: runcommand(condor_store_cred ...), then the password block.
StoreCred ==
    /\ pc = "store_cred"
    /\ \/ /\ disk.workdir
          /\ disk' = [disk EXCEPT !.cred = TRUE]
          /\ config_bits' = Append(config_bits, "passwd")
          /\ Goto("config_write")
          /\ UNCHANGED fatal
       \/ /\ fatal' = fatal \cup {"credential"}
          /\ EnterCleanup("top")
          /\ UNCHANGED << disk, config_bits >>
    /\ UNCHANGED << inputs, masterpid, launches, killTargets, netCalls, config,
                    rmFailed, host, attrs, distro, stagev, published, daemon,
                    reaped, sigv >>

\* ConfigWrite with the path exported before the file is written.
ConfigWrite_PublishFirst ==
    /\ pc = "config_write"
    /\ config' = config_bits
    /\ published' = published + 1
    /\ \/ /\ disk.workdir
          /\ disk' = [disk EXCEPT !.config = "complete"]
          /\ Advance("start_condor", "config_write")
          /\ UNCHANGED fatal
       \/ /\ \E left \in {"absent", "partial"} :
               /\ left = "partial" => disk.workdir
               /\ disk' = [disk EXCEPT !.config = left]
          /\ fatal' = fatal \cup {"configwrite"}
          /\ EnterCleanup("top")
    /\ UNCHANGED << inputs, masterpid, launches, killTargets, netCalls,
                    rmFailed, host, attrs, distro, stagev, config_bits, daemon,
                    reaped, sigv >>

\* initial_config: config = "".join(config_bits), then open, write and
\* close of condor_config.
ConfigWrite ==
    /\ pc = "config_write"
    /\ config' = config_bits
    /\ \/ /\ disk.workdir
          /\ disk' = [disk EXCEPT !.config = "complete"]
          /\ Advance("config_publish", "config_write")
          /\ UNCHANGED fatal
       \/ /\ \E left \in {"absent", "partial"} :
               /\ left = "partial" => disk.workdir
               /\ disk' = [disk EXCEPT !.config = left]
          /\ fatal' = fatal \cup {"configwrite"}
          /\ EnterCleanup("top")
    /\ UNCHANGED << inputs, masterpid, launches, killTargets, netCalls,
                    rmFailed, host, attrs, distro, stagev, config_bits,
                    published, daemon, reaped, sigv >>

\* initial_config: os.environ["CONDOR_CONFIG"] = config_path
ConfigPublish ==
    /\ pc = "config_publish"
    /\ published' = published + 1
    /\ Advance("start_condor", "publish")
    /\ UNCHANGED << inputs, masterpid, launches, killTargets, netCalls, config,
                    rmFailed, host, attrs, distro, stagev, disk, config_bits,
                    daemon, reaped, sigv, fatal >>

\* ------------------------------------------------------------------ daemon

\* start_condor: Popen and self.masterpid = p.pid
StartCondor ==
    /\ pc = "start_condor"
    /\ daemon' = "running"
    /\ attrs' = attrs \cup {"masterpid"}
    /\ \E p \in Pids : masterpid' = p
    /\ launches' = launches + 1
    /\ Advance("sleep300", "launch")
    /\ UNCHANGED << inputs, killTargets, netCalls, config, rmFailed, host,
                    distro, stagev, disk, config_bits, published, reaped, sigv,
                    fatal >>

\* start_condor: time.sleep(300)
Sleep300 ==
    /\ pc = "sleep300"
    /\ Goto("communicate")
    /\ UNCHANGED << inputs, masterpid, launches, killTargets, netCalls, config,
                    rmFailed, host, attrs, distro, stagev, disk, config_bits,
                    published, daemon, reaped, sigv, fatal >>

\* start_condor: p.communicate() returns when the child has exited.
Communicate ==
    /\ pc = "communicate"
    /\ daemon = "exited"
    /\ reaped' = TRUE
    /\ Goto("noclean_check")
    /\ UNCHANGED << inputs, masterpid, launches, killTargets, netCalls, config,
                    rmFailed, host, attrs, distro, stagev, disk, config_bits,
                    published, daemon, sigv, fatal >>

\* __init__: if noclean is False: self.cleanup()
NocleanCheck ==
    /\ pc = "noclean_check"
    /\ IF noclean = FALSE THEN EnterCleanup("top") ELSE Return
    /\ UNCHANGED << inputs, masterpid, launches, killTargets, netCalls, config,
                    rmFailed, host, attrs, distro, stagev, disk, config_bits,
                    published, daemon, reaped, sigv, fatal >>

\* condor_master ends on its own or after a SIGTERM.
DaemonExit ==
    /\ pc # "done"
    /\ daemon = "running"
    /\ daemon' = "exited"
    /\ UNCHANGED << pc, steps, inputs, masterpid, launches, killTargets,
                    netCalls, config, rmFailed, host, attrs, distro, stagev,
                    disk, config_bits, published, reaped, sigv, clv, fatal,
                    exitv >>

\* ---------------------------------------------------------------- teardown

\* sys.exit(1), or another exception, leaving cleanup().  Inside the bare
\* except of realize_file either is caught, and realize_file returns None.
LeaveCleanup(raised) ==
    /\ clRaised' = (clRaised \/ raised)
    /\ UNCHANGED << cleanupEntries, clKill, clSlept, steps >>
    /\ IF ctx = "swallow"
       THEN /\ pc' = "cte_chmod"
            /\ f' = "None"
            /\ ctx' = "top"
            /\ UNCHANGED exitv
       ELSE /\ pc' = "done"
            /\ exitStatus' = FixedExitStatus
            /\ exitVia' = IF raised THEN "uncaught" ELSE "teardown"
            /\ UNCHANGED << f, ctx >>

\* CleanupKill with the signal addressed to pid 0 (the process group).
CleanupKill_ProcessGroup ==
    /\ pc = "cl_kill"
    /\ pc' = "cl_sleep"
    /\ IF "masterpid" \notin attrs
       THEN clKill' = "failed" /\ UNCHANGED killTargets
       ELSE /\ killTargets' = killTargets \cup {0}
            /\ IF reaped
               THEN clKill' \in {"failed", "sent_reaped"}
               ELSE clKill' = "sent"
    /\ UNCHANGED << inputs, masterpid, launches, netCalls, config, rmFailed,
                    host, attrs, distro, stagev, disk, config_bits, published,
                    daemon, reaped, sigv, ctx, cleanupEntries, clSlept,
                    clRaised, fatal, exitv, steps >>

\* cleanup: os.kill(self.masterpid, SIGTERM), every Exception swallowed.
CleanupKill ==
    /\ pc = "cl_kill"
    /\ pc' = "cl_sleep"
    /\ IF "masterpid" \notin attrs
       THEN clKill' = "failed" /\ UNCHANGED killTargets
       ELSE /\ killTargets' = killTargets \cup {masterpid}
            /\ IF reaped
               THEN clKill' \in {"failed", "sent_reaped"}
               ELSE clKill' = "sent"
    /\ UNCHANGED << inputs, masterpid, launches, netCalls, config, rmFailed,
                    host, attrs, distro, stagev, disk, config_bits, published,
                    daemon, reaped, sigv, ctx, cleanupEntries, clSlept,
                    clRaised, fatal, exitv, steps >>

\* cleanup: time.sleep(10)
CleanupSleep ==
    /\ pc = "cl_sleep"
    /\ pc' = "cl_noclean"
    /\ clSlept' = TRUE
    /\ UNCHANGED << inputs, masterpid, launches, killTargets, netCalls, config,
                    rmFailed, host, attrs, distro, stagev, disk, config_bits,
                    published, daemon, reaped, sigv, ctx, cleanupEntries,
                    clKill, clRaised, fatal, exitv, steps >>

\* CleanupNoclean without the test of the flag.
CleanupNoclean_FlagIgnored ==
    /\ pc = "cl_noclean"
    /\ pc' = "cl_rmtar"
    /\ UNCHANGED << f, clv, exitv, steps >>
    /\ UNCHANGED << inputs, masterpid, launches, killTargets, netCalls, config,
                    rmFailed, host, attrs, distro, staged, chmod, which, disk,
                    config_bits, published, daemon, reaped, sigv, fatal >>

\* cleanup: if self.noclean is True: sys.exit(1)
CleanupNoclean ==
    /\ pc = "cl_noclean"
    /\ IF noclean = TRUE
       THEN LeaveCleanup(FALSE)
       ELSE /\ pc' = "cl_rmtar"
            /\ UNCHANGED << f, clv, exitv, steps >>
    /\ UNCHANGED << inputs, masterpid, launches, killTargets, netCalls, config,
                    rmFailed, host, attrs, distro, staged, chmod, which, disk,
                    config_bits, published, daemon, reaped, sigv, fatal >>

\* cleanup: os.remove(self.condor_tarball); only OSError is handled, so a
\* missing attribute raises AttributeError out of cleanup.
CleanupRmTarball ==
    /\ pc = "cl_rmtar"
    /\ IF "condor_tarball" \notin attrs
       THEN LeaveCleanup(TRUE) /\ UNCHANGED << disk, rmFailed >>
       ELSE /\ pc' = "cl_rmtree"
            /\ \/ /\ disk' = [disk EXCEPT !.tarball = FALSE]
                  /\ UNCHANGED rmFailed
               \/ /\ disk.tarball
                  /\ rmFailed' = TRUE
                  /\ UNCHANGED disk
            /\ UNCHANGED << f, clv, exitv, steps >>
    /\ UNCHANGED << inputs, masterpid, launches, killTargets, netCalls, config,
                    host, attrs, distro, staged, chmod, which, config_bits,
                    published, daemon, reaped, sigv, fatal >>

\* cleanup: shutil.rmtree(self.glidein_dir), AttributeError and every other
\* Exception swallowed; then sys.exit(1).
CleanupRmtree ==
    /\ pc = "cl_rmtree"
    /\ IF "glidein_dir" \notin attrs
       THEN UNCHANGED << disk, rmFailed >>
       ELSE \/ /\ disk.workdir
               /\ disk' = RmTree(disk)
               /\ UNCHANGED rmFailed
            \/ /\ rmFailed' = TRUE
               /\ UNCHANGED disk
    /\ LeaveCleanup(FALSE)
    /\ UNCHANGED << inputs, masterpid, launches, killTargets, netCalls, config,
                    host, attrs, distro, staged, chmod, which, config_bits,
                    published, daemon, reaped, sigv, fatal >>

\* ------------------------------------------------------------------ signals

\* Statements at which a SIGINT is taken: every statement of the constructor
\* once the handler is installed, and the grace-period sleep of cleanup.
Interruptible ==
    { "setup_logging", "resolve_platform", "urlretrieve", "file_probe",
      "setup_workdir", "unpack_extract", "unpack_remove", "report_info",
      "stage_wrapper", "stage_cron", "cte_mkdir", "cte_realize", "cte_chmod",
      "initial_config", "store_cred", "config_write", "config_publish",
      "start_condor", "sleep300", "communicate", "noclean_check", "cl_sleep" }

\* Where an exception raised by the handler lands, by the interrupted statement.
HandlerContext ==
    IF pc = "cl_sleep" THEN ctx
    ELSE IF pc = "cte_realize" /\ Source = "url" THEN "swallow"
    ELSE "top"

\* interrupt_handler: self.log.info(...), self.cleanup()
InterruptHandler ==
    /\ handlerInstalled
    /\ pc \in Interruptible
    /\ sigCount < MaxSignals
    /\ sigCount' = sigCount + 1
    /\ IF "log" \notin attrs
       THEN Crash
       ELSE EnterCleanup(HandlerContext)
    /\ UNCHANGED << inputs, masterpid, launches, killTargets, netCalls, config,
                    rmFailed, host, attrs, distro, stagev, disk, config_bits,
                    published, daemon, reaped, handlerInstalled, fatal >>

\* ----------------------------------------------------------- specification

Next ==
    \/ SetupSignaling
    \/ SetupLogging
    \/ ResolvePlatform
    \/ DownloadTarball
    \/ FileProbe
    \/ SetupWorkdir
    \/ UnpackExtract
    \/ UnpackRemove
    \/ ReportInfo
    \/ StageWrapper
    \/ StageCron
    \/ CopyMkdir
    \/ CopyRealize
    \/ CopyChmod
    \/ InitialConfig
    \/ StoreCred
    \/ ConfigWrite
    \/ ConfigPublish
    \/ StartCondor
    \/ Sleep300
    \/ Communicate
    \/ NocleanCheck
    \/ DaemonExit
    \/ CleanupKill
    \/ CleanupSleep
    \/ CleanupNoclean
    \/ CleanupRmTarball
    \/ CleanupRmtree
    \/ InterruptHandler

Spec == Init /\ [][Next]_vars

\* ------------------------------------------------------------------ claims

\* The statements of cleanup().
CleanupPcs == {"cl_kill", "cl_sleep", "cl_noclean", "cl_rmtar", "cl_rmtree"}

\* Elements of a sequence.
Range(q) == { q[i] : i \in 1..Len(q) }

\* C1: every way the process ends gives exit status 1; no run ends with
\* status 0 or by returning from the constructor.
C1_AlwaysFixedExitStatus ==
    pc = "done" => exitStatus = FixedExitStatus /\ exitVia # "return"

\* C2: every fatal condition of a provisioning step is followed by teardown
\* before the process ends; none ends the process by an uncaught exception.
C2_FatalRoutesToTeardown ==
    pc = "done" /\ fatal # {} => cleanupEntries > 0 /\ exitVia = "teardown"

\* C3: once the process has ended with the skip-cleanup flag unset, neither
\* the working directory nor the archive is left on disk.  Removal errors that
\* cleanup itself logs and swallows are granted to the code here.
C3_NothingLeftBehind ==
    pc = "done" /\ ~noclean /\ ~rmFailed => ~disk.workdir /\ ~disk.tarball

\* C4: teardown invoked while the working directory was never created, the
\* child pid was never recorded or the archive is already gone does not raise.
C4_TeardownNeverRaises ==
    /\ cleanupEntries > 0
    /\ \/ "glidein_dir" \notin attrs
       \/ "masterpid" \notin attrs
       \/ ~disk.tarball
    => ~clRaised

\* C5: teardown is entered at most once in a run.
C5_TeardownAtMostOnce == cleanupEntries <= 1

\* The step leaves cleanup() by its sys.exit(1): the process ends with the
\* fixed status, unless realize_file's bare except caught the SystemExit.
LeftBySysExit ==
    /\ clRaised' = clRaised
    /\ \/ pc' = "done" /\ exitStatus' = FixedExitStatus /\ exitVia' = "teardown"
       \/ ctx = "swallow" /\ pc' = "cte_chmod"

\* A step of teardown with the skip-cleanup flag set changes nothing on disk,
\* and the step that leaves teardown comes after the kill attempt and the
\* sleep and is its sys.exit(1).
NocleanTeardownStep ==
    (pc \in CleanupPcs /\ noclean) =>
        /\ disk' = disk
        /\ (pc' \notin CleanupPcs) =>
              (clKill # "none" /\ clSlept /\ LeftBySysExit)

\* A step of teardown that changes the disk has the flag unset.
TeardownRemovalStep ==
    (pc \in CleanupPcs /\ disk' # disk) => ~noclean

\* C6: with the skip-cleanup flag set, teardown tries to signal the daemon,
\* sleeps the grace period, changes nothing on disk and requests exit status
\* 1, and a run that went through teardown ends with status 1; teardown
\* removes files only with the flag unset.
C6_NocleanTeardown ==
    /\ [][NocleanTeardownStep]_vars
    /\ [][TeardownRemovalStep]_vars
    /\ [](pc = "done" /\ noclean /\ cleanupEntries > 0
            => exitStatus = FixedExitStatus)

\* C6 witness: a teardown with the flag set signalled the running daemon,
\* left the working directory in place and ended the process with status 1.
C6_Witness ==
    /\ pc = "done" /\ noclean /\ exitVia = "teardown"
    /\ exitStatus = FixedExitStatus
    /\ clKill = "sent" /\ clSlept /\ disk.workdir /\ disk.config = "complete"

\* The family label the lookup table designates for a distribution name,
\* first match wins; <<>> when no entry matches.
DesignatedFamily(name) ==
    IF \/ Contains(Str_Scientific, name)
       \/ Contains(Str_CentOS, name)
       \/ Contains(Str_Red_Hat, name)
    THEN Str_RedHat
    ELSE IF Contains(Str_Debian, name) THEN Str_Debian
    ELSE IF Contains(Str_Ubuntu, name) THEN Str_Ubuntu
    ELSE <<>>

\* C7: on a Linux host of the supported architecture the resolved label is
\* the designated family of the distribution name followed by the major
\* version, and resolution fails when the name has no designated family.
C7_DistroFamily ==
    host.system = "Linux" /\ host.machine = "x86_64" =>
        IF DesignatedFamily(host.distro_name) = <<>>
        THEN distro = <<>> /\ "os" \in fatal
        ELSE distro = DesignatedFamily(host.distro_name)
                        \o SplitMajor(host.distro_version)

\* The configuration the claim prescribes for the inputs and staged artifacts.
PrescribedConfig ==
    <<"dynamic", "static">>
    \o (IF staged.wrapper = "file" THEN <<"wrapper">> ELSE <<>>)
    \o (IF staged.cron = "file" THEN <<"cron">> ELSE <<>>)
    \o (IF Contains(Str_password, auth) /\ password # "None"
        THEN <<"passwd">> ELSE <<>>)

\* C8: the rendered configuration is the dynamic block, the static block and
\* exactly the optional blocks whose condition holds, in that order.
C8_ConfigBlocks == config # <<>> => config = PrescribedConfig

\* C8 witness: a configuration rendered with all three optional blocks.
C8_Witness == config = <<"dynamic", "static", "wrapper", "cron", "passwd">>

\* A step that assigns os.environ["CONDOR_CONFIG"] is the first to do so and
\* finds the configuration file complete.
PublishStep ==
    (published' # published) =>
        (published = 0 /\ published' = 1 /\ disk.config = "complete")

\* C9: CONDOR_CONFIG is set at most once, only when the configuration file is
\* completely written and closed, and never after a failed write.
C9_PublishOnceAfterWrite ==
    /\ [][PublishStep]_vars
    /\ []("configwrite" \in fatal => published = 0)

\* C9 witness: the path was published with the file complete on disk.
C9_Witness == published = 1 /\ disk.config = "complete" /\ pc = "start_condor"

C11_WaitBounded == pc = "communicate" => ENABLED Communicate

\* A step never changes self.masterpid once it is assigned, and a launch
\* happens only while it is unassigned.
PidStep ==
    /\ masterpid # 0 => masterpid' = masterpid
    /\ launches' # launches => masterpid = 0 /\ masterpid' # 0

\* C12: the daemon is launched at most once, self.masterpid is written at
\* most once and never changed, and every os.kill of teardown is addressed to
\* the recorded pid.
C12_SinglePid ==
    /\ [][PidStep]_vars
    /\ [](launches <= 1)
    /\ [](killTargets \subseteq ({masterpid} \ {0}))

\* C12 witness: teardown signalled the recorded pid of the launched daemon.
C12_Witness ==
    launches = 1 /\ masterpid # 0 /\ killTargets = {masterpid} /\ clKill = "sent"

\* C13: after the file-type probe failed or reported something other than
\* gzip the controller is in teardown or has ended, and no working directory was
\* created, nothing was extracted or rendered and no daemon was launched.
C13_WrongTypeAborts ==
    fatal \cap {"filetype", "probe"} # {} =>
        /\ pc \in CleanupPcs \cup {"done"}
        /\ cleanupEntries >= 1
        /\ steps = <<"download">>
        /\ "glidein_dir" \notin attrs
        /\ ~disk.workdir /\ ~disk.extracted /\ disk.config = "absent"
        /\ config = <<>>
        /\ launches = 0 /\ daemon = "not_started"

\* C13 witness: a run whose probe reported a wrong type ended through teardown.
C13_Witness ==
    "filetype" \in fatal /\ pc = "done" /\ exitVia = "teardown"

\* C14: on a host whose architecture is not x86_64 the run has ended with no
\* urlretrieve call made and nothing created on disk.
C14_ArchFailsFirst ==
    host # NoHost /\ host.machine # "x86_64" =>
        /\ pc = "done"
        /\ netCalls = 0
        /\ disk = EmptyDisk
        /\ steps = <<>>

\* C14 witness: a run on an i686 host has ended.
C14_Witness ==
    host.machine = "i686" /\ "arch" \in fatal /\ pc = "done"
    /\ exitStatus = FixedExitStatus

\* C15: a run in which a SIGINT was taken ends with teardown entered, no
\* exception raised out of teardown, and the fixed exit status.
C15_SignalTeardownCompletes ==
    pc = "done" /\ sigCount > 0 =>
        cleanupEntries > 0 /\ ~clRaised /\ exitStatus = FixedExitStatus

\* C16: while the launched daemon is running its working directory exists;
\* teardown removes the tree only after the daemon has exited.
C16_RemoveAfterExit == daemon = "running" => disk.workdir

\* C18: a staged path recorded in self.exec_wrapper or self.startd_cron
\* names a file that was materialized; it is never None.
C18_StagedPathIsFile ==
    \A a \in {"wrapper", "cron"} : staged[a] # "unset" => staged[a] = "file"

\* C19: once teardown has been entered the controller is inside teardown or
\* has ended; no statement of the constructor runs afterwards.
C19_NoStepAfterTeardown ==
    cleanupEntries > 0 => pc \in CleanupPcs \cup {"done"}

\* C20: once communicate() has reaped the daemon, teardown has addressed no
\* os.kill to the recorded pid.
C20_NoKillAfterReap == reaped => killTargets = {}

\* The steps of a run that reaches the launch, in the order of __init__, for
\* the artifacts that were configured.
PrescribedSteps ==
    <<"download", "typecheck", "workdir", "extract", "rm_archive">>
    \o (IF exec_wrapper # "none" THEN <<"stage_wrapper">> ELSE <<>>)
    \o (IF startd_cron # "none" THEN <<"stage_cron">> ELSE <<>>)
    \o <<"config_write", "publish", "launch">>

\* C17: when the daemon has been launched, download, type check, directory
\* creation, extraction, staging of each configured artifact, configuration
\* write and environment publication have each succeeded once, in that order,
\* before it, and no step has failed.
C17_LaunchAfterAllSteps ==
    launches > 0 \/ daemon # "not_started" =>
        steps = PrescribedSteps /\ fatal = {} /\ launches = 1

C17_Witness ==
    /\ daemon = "running" /\ pc = "sleep300"
    /\ exec_wrapper # "none" /\ startd_cron # "none"
    /\ Len(steps) = 10

====
